---- MODULE Spec2Model ----
(***************************************************************************)
(* Model of build.py: the Site registry (primary load, index synthesis),   *)
(* the Node factory and tree construction, and the render pass.            *)
(*                                                                         *)
(* Strings are sequences of tokens.  A token is one character ("/", ".",   *)
(* "_", a letter, a digit) or a fixed word that the code only ever handles *)
(* as a unit ("indexes", "index_", "html", "yaml", "site", ...).  Prefix   *)
(* tests and concatenation work on the token sequence exactly as the       *)
(* Python string operations work on characters.                            *)
(***************************************************************************)
EXTENDS Integers, Sequences, FiniteSets, TLC

VARIABLES
    root_path,   \* Site._root_path
    fs,          \* the files on disk: path string -> parsed YAML content
    dirs,        \* the directories on disk (path strings, as seen from cwd)
    todo,        \* glob results create_base_nodes has not visited yet
    nodes,       \* Site._nodes: key -> node
    keys,        \* insertion order of Site._nodes (dict order)
    pc,          \* position of the program
    err,         \* the exception that ended the run ("none" while running)
    indexes,     \* create_index_nodes: the list read from /site.html
    si,          \* create_index_nodes: position in indexes (1-based)
    post_nodes,  \* create_index_nodes: members of the current specification
    page_links,  \* create_index_nodes: page links of the current specification
    pi,          \* create_index_nodes: loop variable i of the page loop
    ri,          \* __main__: position of the render loop in keys (1-based)
    out,         \* key -> value returned by the last render of that tree
    disk,        \* html files written: path string -> text
    nrender,     \* number of renders performed after the first pass
    primary,     \* history: Site._nodes when create_base_nodes returned
    selected,    \* history: the members of the current specification as selected
    hist,        \* history: per finished specification, what it selected
    call,        \* a direct call of Node.create: [path, data] as passed
    ret,         \* what that call returned
    held         \* the dictionaries the caller passed, as they are afterwards

vars == <<root_path, fs, dirs, todo, nodes, keys, pc, err, indexes, si,
          post_nodes, page_links, pi, ri, out, disk, nrender, primary, selected,
          hist, call, ret, held>>

----------------------------------------------------------------------------
(* Bounds of the model *)

MaxDocs == 3        \* primary documents besides _site.yaml
MaxIndexes == 2     \* index specifications in /site.html
MaxRerender == 1    \* renders after the first pass

----------------------------------------------------------------------------
(* Generic helpers *)

Min(a, b) == IF a < b THEN a ELSE b

Range(s) == {s[j] : j \in DOMAIN s}

Drop(f, k) == [x \in DOMAIN f \ {k} |-> f[x]]

\* dict.get(key, default)
Get(d, k, default) == IF k \in DOMAIN d THEN d[k] ELSE default

Has(d, k) == k \in DOMAIN d

\* str.startswith
StartsWith(s, p) == Len(p) <= Len(s) /\ SubSeq(s, 1, Len(p)) = p

Digit == <<"0", "1", "2", "3", "4", "5", "6", "7", "8", "9">>

RECURSIVE DecStr(_)
\* str(i) of a non-negative integer, as used by the f-strings
DecStr(n) == IF n < 10 THEN <<Digit[n + 1]>>
             ELSE DecStr(n \div 10) \o <<Digit[(n % 10) + 1]>>

----------------------------------------------------------------------------
(* pathlib.Path: [abs, parts]; a part is a token sequence without "/" *)

RECURSIVE SplitParts(_, _)
\* split a string on "/" into components; cur is the component being read
SplitParts(s, cur) ==
    IF s = <<>> THEN <<cur>>
    ELSE IF Head(s) = "/" THEN <<cur>> \o SplitParts(Tail(s), <<>>)
    ELSE SplitParts(Tail(s), Append(cur, Head(s)))

\* pathlib drops empty components and "." components
KeepPart(p) == p # <<>> /\ p # <<".">>

Path(s) == [abs   |-> s # <<>> /\ s[1] = "/",
            parts |-> SelectSeq(SplitParts(s, <<>>), KeepPart)]

RECURSIVE JoinParts(_)
JoinParts(ps) == IF ps = <<>> THEN <<>>
                 ELSE IF Len(ps) = 1 THEN ps[1]
                 ELSE ps[1] \o <<"/">> \o JoinParts(Tail(ps))

\* str(path)
PathStr(p) == IF p.abs THEN <<"/">> \o JoinParts(p.parts)
              ELSE IF p.parts = <<>> THEN <<".">>
              ELSE JoinParts(p.parts)

\* path / other
PathJoin(p, q) == IF q.abs THEN q
                  ELSE [abs |-> p.abs, parts |-> p.parts \o q.parts]

\* path.parent
PathParent(p) == [abs |-> p.abs,
                  parts |-> IF p.parts = <<>> THEN <<>>
                            ELSE SubSeq(p.parts, 1, Len(p.parts) - 1)]

\* path.name
PathName(p) == p.parts[Len(p.parts)]

\* path.with_name(name)
WithName(p, name) == [abs |-> p.abs,
                      parts |-> SubSeq(p.parts, 1, Len(p.parts) - 1) \o <<name>>]

\* every ancestor directory of p, p excluded, as path strings
Ancestors(p) == {PathStr([abs |-> p.abs, parts |-> SubSeq(p.parts, 1, n)]) :
                    n \in 0..(Len(p.parts) - 1)}

\* Path.mkdir(parents=True, exist_ok=True)
Mkdir(ds, p) == ds \cup Ancestors(p) \cup {PathStr(p)}

----------------------------------------------------------------------------
(* Node registry and factory *)

REGISTERED_NODE_TYPES ==
    [data |-> "DataNode", base |-> "BaseNode", page |-> "PageNode",
     post |-> "PostNode", post_list |-> "PostListNode", h1 |-> "H1Node"]

Fail(e) == [ok |-> FALSE, err |-> e]

Ok(n) == [ok |-> TRUE, node |-> n]

RECURSIVE Node_create(_, _)
RECURSIVE CreateChildren(_, _)

\* a child loop that drops the children it cannot create
CreateChildrenSkip(path, children) ==
    IF children = <<>> THEN [ok |-> TRUE, nodes |-> <<>>]
    ELSE LET first == Node_create(path, Head(children))
             rest  == CreateChildren(path, Tail(children))
         IN  IF ~rest.ok THEN rest
             ELSE IF ~first.ok THEN rest
             ELSE [ok |-> TRUE, nodes |-> <<first.node>> \o rest.nodes]

\* [Node.create(path, child) for child in children]: the first failure ends it
CreateChildren(path, children) ==
    IF children = <<>> THEN [ok |-> TRUE, nodes |-> <<>>]
    ELSE LET first == Node_create(path, Head(children))
         IN  IF ~first.ok THEN first
             ELSE LET rest == CreateChildren(path, Tail(children))
                  IN  IF ~rest.ok THEN rest
                      ELSE [ok |-> TRUE, nodes |-> <<first.node>> \o rest.nodes]

\* a constructor that reads the children without popping them
Node_initKeep(cls, path, data) ==
    LET children == Get(data, "children", <<>>)
        built    == CreateChildren(path, children)
    IN  IF ~built.ok THEN built
        ELSE Ok([cls      |-> cls,
                 path     |-> path,
                 attr     |-> data,
                 children |-> built.nodes])

\* Node.__init__
Node_init(cls, path, data) ==
    LET children == Get(data, "children", <<>>)
        built    == CreateChildren(path, children)
    IN  IF ~built.ok THEN built
        ELSE Ok([cls      |-> cls,
                 path     |-> path,
                 attr     |-> Drop(data, "children"),
                 children |-> built.nodes])

\* BaseNode.__init__
BaseNode_init(cls, path, data) ==
    LET super == Node_init(cls, path, data)
    IN  IF ~super.ok THEN super
        ELSE IF ~Has(data, "root_path") THEN Fail("TypeError")
        ELSE Ok([cls       |-> super.node.cls,
                 path      |-> super.node.path,
                 attr      |-> super.node.attr,
                 children  |-> super.node.children,
                 html_path |-> PathJoin(data.root_path, path)])

\* Node.create
Node_create(path, data) ==
    IF ~Has(data, "type") THEN Fail("ValueError")
    ELSE IF data.type \notin DOMAIN REGISTERED_NODE_TYPES THEN Fail("KeyError")
    ELSE LET node_class == REGISTERED_NODE_TYPES[data.type]
         IN  IF node_class = "BaseNode" THEN BaseNode_init(node_class, path, data)
             ELSE Node_init(node_class, path, data)

\* Node.attr
Node_attr(node) == node.attr

\* Node.path
Node_path(node) == <<"/">> \o PathStr(node.path)

\* a constructor that leaves the children key in the caller's dictionary
AfterCreateKept(data) == data

\* the dictionary as the caller sees it after Node.create consumed it
AfterCreate(data) == Drop(data, "children")

RECURSIVE Untouched(_)
RECURSIVE Consume(_, _)
RECURSIVE ConsumeChildren(_, _)

\* a dictionary no constructor ran on, and the child dictionaries it lists
Untouched(data) ==
    LET children == Get(data, "children", <<>>)
    IN  [self |-> data,
         kids |-> [j \in DOMAIN children |-> Untouched(children[j])]]

\* the child loop of Node.__init__ seen from the dictionaries: the children
\* are consumed in order, and those after the first failure are not reached
ConsumeChildren(path, children) ==
    IF children = <<>> THEN <<>>
    ELSE IF ~Node_create(path, Head(children)).ok
    THEN <<Consume(path, Head(children))>>
         \o [j \in 1..(Len(children) - 1) |-> Untouched(children[j + 1])]
    ELSE <<Consume(path, Head(children))>>
         \o ConsumeChildren(path, Tail(children))

\* Node.create seen from the dictionaries: it raises before any constructor
\* runs, or Node.__init__ pops children and goes on to the child dictionaries
Consume(path, data) ==
    IF ~Has(data, "type") THEN Untouched(data)
    ELSE IF data.type \notin DOMAIN REGISTERED_NODE_TYPES THEN Untouched(data)
    ELSE [self |-> AfterCreate(data),
          kids |-> ConsumeChildren(path, Get(data, "children", <<>>))]

----------------------------------------------------------------------------
(* Site: primary load *)

SITE_KEY == <<"/", "site", ".", "html">>

HOME_KEY == <<"/", "index", ".", "html">>

\* Site.get_attr
get_attr(reg, path) == IF path \notin DOMAIN reg THEN Fail("ValueError")
                       ELSE [ok |-> TRUE, attr |-> Node_attr(reg[path])]

\* an insertion that replaces the mapping instead of extending it
InsertOnly(reg, node) == (Node_path(node) :> node)

\* self._nodes[node.path] = node
Insert(reg, node) == (Node_path(node) :> node) @@ reg

\* position of a key in the dict order after self._nodes[key] = ...
InsertKey(order, key) == IF key \in Range(order) THEN order ELSE Append(order, key)

\* self._root_path.glob("**/_*.yaml")
IsNodeFile(name) == Len(name) >= 3 /\ name[1] = "_"
                    /\ name[Len(name) - 1] = "." /\ name[Len(name)] = "yaml"

Glob(files, root) ==
    {p \in {Path(f) : f \in DOMAIN files} :
        /\ p.abs = root.abs
        /\ Len(p.parts) > Len(root.parts)
        /\ SubSeq(p.parts, 1, Len(root.parts)) = root.parts
        /\ IsNodeFile(PathName(p))}

\* yaml_path.name[1:-4] + "html"
HtmlName(name) == SubSeq(name, 2, Len(name) - 1) \o <<"html">>

\* lines 37-43: every document that is not "data" gets a base wrapper
Wrap(content, root) ==
    IF Get(content, "type", "None") # "data"
    THEN [k \in DOMAIN content \cup {"type", "root_path", "children"} |->
            CASE k = "type"      -> "base"
              [] k = "root_path" -> root
              [] k = "children"  -> <<content>>
              [] OTHER           -> content[k]]
    ELSE content

Abort(e) ==
    /\ pc' = "failed"
    /\ err' = e

\* one iteration of the loop of Site.create_base_nodes
create_base_nodes(yaml_path) ==
    /\ pc = "base"
    /\ yaml_path \in todo
    /\ todo' = todo \ {yaml_path}
    /\ LET html_path == WithName(yaml_path, HtmlName(PathName(yaml_path)))
           file      == PathStr(PathJoin(root_path, yaml_path))
       IN  IF file \notin DOMAIN fs
           THEN Abort("FileNotFoundError") /\ UNCHANGED <<nodes, keys>>
           ELSE LET made == Node_create(html_path, Wrap(fs[file], root_path))
                IN  IF ~made.ok
                    THEN Abort(made.err) /\ UNCHANGED <<nodes, keys>>
                    ELSE /\ nodes' = Insert(nodes, made.node)
                         /\ keys' = InsertKey(keys, Node_path(made.node))
                         /\ UNCHANGED <<pc, err>>
    /\ UNCHANGED <<root_path, fs, dirs, indexes, si, post_nodes, page_links,
                   pi, ri, out, disk, nrender, primary, selected, hist,
                   call, ret, held>>

----------------------------------------------------------------------------
(* Site: index synthesis *)

\* an __init__ that goes on as soon as the site configuration is loaded
BaseLoopCut(rest, reg) == rest = {} \/ <<"/", "site", ".", "html">> \in DOMAIN reg

\* line 30: the loop over the glob results is exhausted, so __init__ goes on
\* to create_index_nodes (lines 20-21)
BaseLoopDone(rest, reg) == rest = {}

\* line 50, reached when create_base_nodes has returned
read_indexes ==
    /\ pc = "base"
    /\ BaseLoopDone(todo, nodes)
    /\ primary' = nodes
    /\ LET site == get_attr(nodes, SITE_KEY)
       IN  IF ~site.ok
           THEN Abort(site.err) /\ UNCHANGED <<indexes, si>>
           ELSE /\ indexes' = Get(site.attr, "indexes", <<>>)
                /\ si' = 1
                /\ pc' = "select"
                /\ UNCHANGED err
    /\ UNCHANGED <<root_path, fs, dirs, todo, nodes, keys, post_nodes,
                   page_links, pi, ri, out, disk, nrender, selected, hist,
                   call, ret, held>>

page_root(index) == index.path

page_size(index) == Get(index, "page_size", 20)

\* lines 56-59: the registry entries whose key starts with page_root, dict order
Members(reg, order, prefix) ==
    LET Sel(k) == StartsWith(k, prefix)
        sel    == SelectSeq(order, Sel)
    IN  [j \in 1..Len(sel) |-> reg[sel[j]]]

\* lines 53-59, or the end of the loop over indexes
select_members ==
    /\ pc = "select"
    /\ IF si > Len(indexes)
       THEN /\ pc' = "render"
            /\ ri' = 1
            /\ UNCHANGED <<post_nodes, selected>>
       ELSE /\ post_nodes' = Members(nodes, keys, page_root(indexes[si]))
            /\ selected' = post_nodes'
            /\ pc' = "sort"
            /\ UNCHANGED ri
    /\ UNCHANGED <<root_path, fs, dirs, todo, nodes, keys, err, indexes, si,
                   page_links, pi, out, disk, nrender, primary, hist, call, ret, held>>

\* the sort key: node.attr.get("date")
HasDate(node) == Has(Node_attr(node), "date")

DateOf(node) == Node_attr(node).date

RECURSIVE InsertDesc(_, _)
\* put n behind every element whose date is not smaller (keeps ties in order)
InsertDesc(sorted, n) ==
    IF sorted = <<>> THEN <<n>>
    ELSE IF DateOf(Head(sorted)) >= DateOf(n)
         THEN <<Head(sorted)>> \o InsertDesc(Tail(sorted), n)
         ELSE <<n>> \o sorted

RECURSIVE SortDesc(_)
\* list.sort(key=date, reverse=True): stable, descending
SortDesc(s) == IF s = <<>> THEN <<>>
               ELSE InsertDesc(SortDesc(SubSeq(s, 1, Len(s) - 1)), s[Len(s)])

\* comparing None with anything raises TypeError; one element is never compared
SortFails(s) == Len(s) >= 2 /\ \E j \in DOMAIN s : ~HasDate(s[j])

\* len(range(0, n, size))
NumPages(n, size) == (n + size - 1) \div size

\* f"{page_root}indexes/index_{i}.html"
PageLink(prefix, i) == prefix \o <<"indexes", "/", "index_">> \o DecStr(i) \o <<".", "html">>

\* a mkdir that stops at the prefix directory
IndexDirNoLeaf(prefix) == Path(<<".">> \o prefix)

\* line 64: pathlib.Path("." + page_root) / "indexes"
IndexDir(prefix) == PathJoin(Path(<<".">> \o prefix), Path(<<"indexes">>))

\* line 89: pathlib.Path("." + page_root) / "indexes" / f"index_{i}.html"
IndexPath(prefix, i) ==
    PathJoin(PathJoin(Path(<<".">> \o prefix), Path(<<"indexes">>)),
             Path(<<"index_">> \o DecStr(i) \o <<".", "html">>))

\* lines 61-68
sort_members ==
    /\ pc = "sort"
    /\ LET index == indexes[si]
           n     == Len(post_nodes)
       IN  IF SortFails(post_nodes)
           THEN Abort("TypeError") /\ UNCHANGED <<post_nodes, dirs, page_links, pi>>
           ELSE /\ post_nodes' = SortDesc(post_nodes)
                /\ dirs' = IF n > 0 THEN Mkdir(dirs, IndexDir(page_root(index)))
                           ELSE dirs
                /\ page_links' = [j \in 1..NumPages(n, page_size(index)) |->
                                    PageLink(page_root(index), j - 1)]
                /\ pi' = 0
                /\ pc' = "pages"
                /\ UNCHANGED err
    /\ UNCHANGED <<root_path, fs, todo, nodes, keys, indexes, si, ri, out,
                   disk, nrender, primary, selected, hist, call, ret, held>>

\* a batching that starts every batch one element late
BatchLate(s, size, i) ==
    LET lo == i * size + 1
        n  == IF Len(s) - lo < 0 THEN 0 ELSE Min(size, Len(s) - lo)
    IN  [j \in 1..n |-> s[lo + j]]

\* itertools.batched(post_nodes, page_size): batch i (0-based)
Batch(s, size, i) ==
    LET lo == i * size
        n  == Min(size, Len(s) - lo)
    IN  [j \in 1..n |-> s[lo + j]]

NumBatches(s, size) == IF Len(s) = 0 THEN 0 ELSE ((Len(s) - 1) \div size) + 1

\* lines 71-82
PageData(root, chunk, i, links) ==
    [type      |-> "base",
     root_path |-> root,
     children  |-> <<[type       |-> "post_list",
                      post_nodes |-> chunk,
                      page_index |-> i,
                      page_links |-> links]>>]

\* copy.deepcopy(data): an equal value that shares nothing with data
DeepCopy(data) == data

\* a home tree built from data itself: Node.__init__ pops its children
HomeCreateShared(data) ==
    [made |-> Node_create(Path(<<".", "/", "index", ".", "html">>), data),
     data |-> AfterCreate(data)]

\* line 85: the home tree is built from a copy, so data keeps its children
HomeCreate(data) ==
    [made |-> Node_create(Path(<<".", "/", "index", ".", "html">>), DeepCopy(data)),
     data |-> data]

\* lines 70-93: one iteration of the page loop, or its end
create_index_nodes ==
    /\ pc = "pages"
    /\ LET index == indexes[si]
       IN  IF pi >= NumBatches(post_nodes, page_size(index))
           THEN /\ hist' = Append(hist, [index      |-> index,
                                         selected   |-> selected,
                                         post_nodes |-> post_nodes,
                                         page_links |-> page_links,
                                         pages      |-> pi])
                /\ si' = si + 1
                /\ pc' = "select"
                /\ UNCHANGED <<nodes, keys, pi, err>>
           ELSE LET data0 == PageData(root_path,
                                      Batch(post_nodes, page_size(index), pi),
                                      pi, page_links)
                    home  == Get(index, "home", FALSE) /\ pi = 0
                    hc    == HomeCreate(data0)
                    data  == IF home THEN hc.data ELSE data0
                    made  == Node_create(IndexPath(page_root(index), pi), data)
                    reg1  == IF home /\ hc.made.ok THEN Insert(nodes, hc.made.node)
                             ELSE nodes
                    ord1  == IF home /\ hc.made.ok
                             THEN InsertKey(keys, Node_path(hc.made.node))
                             ELSE keys
                IN  IF home /\ ~hc.made.ok
                    THEN Abort(hc.made.err) /\ UNCHANGED <<nodes, keys, pi, si, hist>>
                    ELSE IF ~made.ok
                    THEN /\ Abort(made.err)
                         /\ nodes' = reg1
                         /\ keys' = ord1
                         /\ UNCHANGED <<pi, si, hist>>
                    ELSE /\ nodes' = Insert(reg1, made.node)
                         /\ keys' = InsertKey(ord1, Node_path(made.node))
                         /\ pi' = pi + 1
                         /\ UNCHANGED <<pc, err, si, hist>>
    /\ UNCHANGED <<root_path, fs, dirs, todo, indexes, post_nodes, page_links,
                   ri, out, disk, nrender, primary, selected, call, ret, held>>

----------------------------------------------------------------------------
(* Rendering.  A rendered text is a token sequence; str(None) is "None".   *)

RECURSIVE Flatten(_)
\* "".join(list of texts)
Flatten(texts) == IF texts = <<>> THEN <<>>
                  ELSE Head(texts) \o Flatten(Tail(texts))

\* truthiness of attr.get(k) for a string field
Truthy(attr, k) == Has(attr, k) /\ attr[k] # ""

\* f"{attr.get(k)}" for a string field
StrField(attr, k) == <<Get(attr, k, "None")>>

\* f"{attr.get('date')}"
DateField(attr) == IF Has(attr, "date") THEN DecStr(attr.date) ELSE <<"None">>

\* a control that compares the 1-based position with page_index
PaginationOneBased(page_index, links) ==
    IF Len(links) > 1
    THEN [shown        |-> TRUE,
          items        |-> [j \in 1..Len(links) |->
                              [active |-> (j = page_index),
                               link   |-> links[j],
                               label  |-> j - 1]],
          prev_link    |-> IF page_index > 0 THEN links[page_index] ELSE <<"#">>,
          prev_enabled |-> IF page_index > 0 THEN "" ELSE "disabled",
          next_link    |-> IF page_index < Len(links) - 1
                           THEN links[page_index + 2] ELSE <<"#">>,
          next_enabled |-> IF page_index < Len(links) - 1 THEN "" ELSE "disabled"]
    ELSE [shown |-> FALSE]

\* PostListNode.render, lines 603-625: the pagination control, or "none"
Pagination(page_index, links) ==
    IF Len(links) > 1
    THEN [shown        |-> TRUE,
          items        |-> [j \in 1..Len(links) |->
                              [active |-> (j - 1 = page_index),
                               link   |-> links[j],
                               label  |-> j - 1]],
          prev_link    |-> IF page_index > 0 THEN links[page_index] ELSE <<"#">>,
          prev_enabled |-> IF page_index > 0 THEN "" ELSE "disabled",
          next_link    |-> IF page_index < Len(links) - 1
                           THEN links[page_index + 2] ELSE <<"#">>,
          next_enabled |-> IF page_index < Len(links) - 1 THEN "" ELSE "disabled"]
    ELSE [shown |-> FALSE]

\* lines 604-611 and 627-642: the text of the pagination control
PaginationText(pg) ==
    IF ~pg.shown THEN <<>>
    ELSE <<"<nav>", "<a class=", pg.prev_enabled, "href=">> \o pg.prev_link
         \o Flatten([j \in 1..Len(pg.items) |->
                <<"<li class=", IF pg.items[j].active THEN "active" ELSE "", "href=">>
                \o pg.items[j].link \o DecStr(pg.items[j].label)])
         \o <<"<a class=", pg.next_enabled, "href=">> \o pg.next_link \o <<"</nav>">>

\* PostListNode.render
PostListNode_render(node) ==
    LET attr  == Node_attr(node)
        posts == Get(attr, "post_nodes", <<>>)
        index == Get(attr, "page_index", 0)
        links == Get(attr, "page_links", <<>>)
    IN  <<"<h3>Posts</h3>">>
        \o Flatten([j \in 1..Len(posts) |->
              <<"<a href=">> \o Node_path(posts[j])
              \o StrField(Node_attr(posts[j]), "title")
              \o DateField(Node_attr(posts[j])) \o <<"</a>">>])
        \o PaginationText(Pagination(index, links))

RECURSIVE Render(_, _)
\* node.render(site): the text returned
Render(node, reg) ==
    LET attr    == Node_attr(node)
        content == Flatten([j \in 1..Len(node.children) |->
                               Render(node.children[j], reg)])
    IN  CASE node.cls = "BaseNode" ->
               LET title == IF node.children # <<>>
                               /\ Truthy(Node_attr(node.children[1]), "title")
                            THEN <<Node_attr(node.children[1]).title>>
                            ELSE StrField(get_attr(reg, SITE_KEY).attr, "name")
               IN  <<"<html>", "<title>">> \o title
                   \o <<"<nav>">> \o StrField(get_attr(reg, SITE_KEY).attr, "name")
                   \o <<"<main>">> \o content \o <<"</main>", "</html>">>
          [] node.cls = "PostNode" ->
               <<"<h1>">> \o StrField(attr, "title")
               \o (IF Has(attr, "date") THEN DecStr(attr.date) ELSE <<"????-??">>)
               \o content
          [] node.cls = "PageNode" ->
               <<"<h1>">> \o StrField(attr, "title") \o content
          [] node.cls = "H1Node" ->
               <<"<h1 class=mb-2>">> \o StrField(attr, "text")
          [] node.cls = "PostListNode" -> PostListNode_render(node)
          [] OTHER -> content

\* BaseNode.render, lines 215-216: the write of the root tree
WriteFails(node, ds) ==
    node.cls = "BaseNode" /\ PathStr(PathParent(node.html_path)) \notin ds

Write(files, node, text) ==
    IF node.cls = "BaseNode" THEN (PathStr(node.html_path) :> text) @@ files
    ELSE files

\* a render that consumes the title it reads
AfterRenderPop(node) == [node EXCEPT !.attr = Drop(@, "title")]

\* the effect of node.render(site) on the tree: none
AfterRender(node) == node

\* node.render(site) for the tree registered under key
RenderTree(key) ==
    LET node == nodes[key]
    IN  IF WriteFails(node, dirs)
        THEN Abort("FileNotFoundError") /\ UNCHANGED <<out, disk, nodes>>
        ELSE /\ out' = (key :> Render(node, nodes)) @@ out
             /\ disk' = Write(disk, node, Render(node, nodes))
             /\ nodes' = (key :> AfterRender(node)) @@ nodes
             /\ UNCHANGED err

\* __main__, lines 738-739: one iteration of the render loop, or its end
render ==
    /\ pc = "render"
    /\ IF ri > Len(keys)
       THEN /\ pc' = "done"
            /\ UNCHANGED <<out, disk, nodes, err, ri>>
       ELSE /\ RenderTree(keys[ri])
            /\ ri' = ri + 1
            /\ IF WriteFails(nodes[keys[ri]], dirs) THEN TRUE ELSE UNCHANGED pc
    /\ UNCHANGED <<root_path, fs, dirs, todo, keys, indexes, si, post_nodes,
                   page_links, pi, nrender, primary, selected, hist, call, ret, held>>

\* a caller renders a tree of the built site once more
rerender(key) ==
    /\ pc = "done"
    /\ nrender < MaxRerender
    /\ key \in DOMAIN nodes
    /\ nrender' = nrender + 1
    /\ RenderTree(key)
    /\ IF WriteFails(nodes[key], dirs) THEN TRUE ELSE UNCHANGED pc
    /\ UNCHANGED <<root_path, fs, dirs, todo, keys, indexes, si, post_nodes,
                   page_links, pi, ri, primary, selected, hist, call, ret, held>>

----------------------------------------------------------------------------
(* The inputs: a content root, the documents under it, the index list *)

Roots == {Path(<<".">>), Path(<<"content">>), Path(<<"/", "srv">>)}

\* dated posts below /a/ and /b/
GoodDocs == {"p1", "p2", "p3", "q"}

\* a page at the site root, loaded as /index.html
RootDocs == {"index"}

\* documents with a descriptor that Node.create rejects
BadDocs == {"notype", "unknown", "nested", "deep"}

YamlName(stem) == <<"_", stem, ".", "yaml">>

\* the path of a document below the content root
DocPath(id) ==
    CASE id \in {"p1", "p2", "p3"} -> Path(<<"a", "/">> \o YamlName(id))
      [] id = "q"                  -> Path(<<"b", "/">> \o YamlName(id))
      [] id = "index"              -> Path(YamlName("index"))
      [] OTHER                     -> Path(<<"c", "/">> \o YamlName(id))

\* the parsed YAML of a document
DocContent(id) ==
    CASE id = "p1"      -> [type |-> "post", title |-> "t1", date |-> 1]
      [] id = "p2"      -> [type |-> "post", title |-> "t2", date |-> 2,
                            children |-> <<[type |-> "h1", text |-> "x"]>>]
      [] id = "p3"      -> [type |-> "post", title |-> "t3", date |-> 2]
      [] id = "q"       -> [type |-> "post", title |-> "tq", date |-> 3]
      [] id = "index"   -> [type |-> "page", title |-> "home"]
      [] id = "notype"  -> [title |-> "x"]
      [] id = "unknown" -> [type |-> "bogus", title |-> "x"]
      [] id = "nested"  -> [type |-> "post", title |-> "x", date |-> 1,
                            children |-> <<[type |-> "h1", text |-> "x"],
                                           [text |-> "y"]>>]
      [] id = "deep"    -> [type |-> "page", title |-> "x",
                            children |-> <<[type |-> "page", title |-> "y",
                                            children |-> <<[type |-> "bogus"]>>]>>]

IndexSpecs ==
    {[path |-> <<"/", "a", "/">>, page_size |-> 1, home |-> TRUE],
     [path |-> <<"/", "a">>, page_size |-> 2],
     [path |-> <<"/", "b", "/">>, home |-> TRUE],
     [path |-> <<"/">>, page_size |-> 2]}

\* lists of distinct specifications
IndexLists ==
    {ix \in UNION {[1..n -> IndexSpecs] : n \in 0..MaxIndexes} :
        \A j, k \in DOMAIN ix : j # k => ix[j] # ix[k]}

SiteContent(ix) == IF ix = <<>> THEN [type |-> "data", name |-> "S"]
                   ELSE [type |-> "data", name |-> "S", indexes |-> ix]

\* the files of a content root that holds _site.yaml and the documents ids
Files(root, ids, ix) ==
    LET SitePath == PathStr(PathJoin(root, Path(YamlName("site"))))
        At(id)   == PathStr(PathJoin(root, DocPath(id)))
    IN  [f \in {SitePath} \cup {At(id) : id \in ids} |->
            IF f = SitePath THEN SiteContent(ix)
            ELSE DocContent(CHOOSE id \in ids : At(id) = f)]

Init ==
    \E root \in Roots, ids \in SUBSET (GoodDocs \cup RootDocs \cup BadDocs),
       ix \in IndexLists :
        /\ Cardinality(ids) <= MaxDocs
        \* every index list on the posts of a content root that is the working
        \* directory; one home-marked specification on the other documents and
        \* the other content roots
        /\ \/ root = Path(<<".">>) /\ ids \subseteq GoodDocs
           \/ /\ Len(ix) = 1 /\ Get(ix[1], "page_size", 20) = 1
              /\ ids \subseteq {"p1"} \cup RootDocs \cup BadDocs
        /\ root_path = root
        /\ fs = Files(root, ids, ix)
        /\ dirs = {<<".">>, PathStr(root)}
                  \cup UNION {Ancestors(Path(f)) : f \in DOMAIN fs}
        /\ todo = Glob(fs, root)
        /\ nodes = <<>>
        /\ keys = <<>>
        /\ pc = "base"
        /\ err = "none"
        /\ indexes = <<>>
        /\ si = 0
        /\ post_nodes = <<>>
        /\ page_links = <<>>
        /\ pi = 0
        /\ ri = 0
        /\ out = <<>>
        /\ disk = <<>>
        /\ nrender = 0
        /\ primary = <<>>
        /\ selected = <<>>
        /\ hist = <<>>
        /\ call = [path |-> Path(<<".">>), data |-> [type |-> "data"]]
        /\ ret = Fail("none")
        /\ held = Untouched(call.data)

(* Direct calls of the factory: Node.create(path, data) on its own *)

CreateFields == {"title", "date", "text", "root_path"}

FieldValue(k) ==
    CASE k = "title"     -> "t"
      [] k = "date"      -> 1
      [] k = "text"      -> "x"
      [] k = "root_path" -> Path(<<".">>)

CreateChildLists ==
    {<<>>,
     <<[type |-> "h1", text |-> "x"]>>,
     <<[type |-> "page", title |-> "y", children |-> <<[type |-> "h1"]>>],
       [type |-> "h1", text |-> "z"]>>}

CreatePaths == {Path(<<"a", "/", "x", ".", "html">>), Path(<<"index", ".", "html">>)}

\* {type: tag, ...fields} with or without a children key
CreateData ==
    {[k \in {"type"} \cup F |-> IF k = "type" THEN tag ELSE FieldValue(k)] :
        tag \in DOMAIN REGISTERED_NODE_TYPES, F \in SUBSET CreateFields}
    \cup
    {[k \in {"type", "children"} \cup F |->
         IF k = "type" THEN tag ELSE IF k = "children" THEN ch ELSE FieldValue(k)] :
        tag \in DOMAIN REGISTERED_NODE_TYPES, F \in SUBSET CreateFields,
        ch \in CreateChildLists}

InitCreate ==
    /\ call \in [path : CreatePaths, data : CreateData]
    /\ ret = Fail("none")
    /\ held = Untouched(call.data)
    /\ pc = "create"
    /\ err = "none"
    /\ root_path = Path(<<".">>)
    /\ fs = <<>>
    /\ dirs = {<<".">>}
    /\ todo = {}
    /\ nodes = <<>>
    /\ keys = <<>>
    /\ indexes = <<>>
    /\ si = 0
    /\ post_nodes = <<>>
    /\ page_links = <<>>
    /\ pi = 0
    /\ ri = 0
    /\ out = <<>>
    /\ disk = <<>>
    /\ nrender = 0
    /\ primary = <<>>
    /\ selected = <<>>
    /\ hist = <<>>

\* the call Node.create(call.path, call.data)
create ==
    /\ pc = "create"
    /\ ret' = Node_create(call.path, call.data)
    /\ held' = Consume(call.path, call.data)
    /\ pc' = "created"
    /\ UNCHANGED <<root_path, fs, dirs, todo, nodes, keys, err, indexes, si,
                   post_nodes, page_links, pi, ri, out, disk, nrender, primary,
                   selected, hist, call>>

NextCreate == create

SpecCreate == InitCreate /\ [][NextCreate]_vars

Next ==
    \/ \E y \in todo : create_base_nodes(y)
    \/ read_indexes
    \/ select_members
    \/ sort_members
    \/ create_index_nodes
    \/ render
    \/ \E k \in DOMAIN nodes : rerender(k)

Spec == Init /\ [][Next]_vars

----------------------------------------------------------------------------
(* Vocabulary of the properties *)

\* the registry key of page i of a specification with this prefix
PageKey(prefix, i) == <<"/">> \o PathStr(IndexPath(prefix, i))

\* the smallest k with k * size >= n
Ceil(n, size) == CHOOSE k \in 0..n : k * size >= n /\ (k = 0 \/ (k - 1) * size < n)

Count(s, x) == Cardinality({j \in DOMAIN s : s[j] = x})

IsPermutation(s, t) ==
    Len(s) = Len(t) /\ \A x \in Range(s) \cup Range(t) : Count(s, x) = Count(t, x)

DateDescending(s) ==
    \A j, k \in DOMAIN s : j < k => DateOf(s[j]) >= DateOf(s[k])

\* a specification has just finished its page loop; Last is its record
JustFinished == pc = "select" /\ hist # <<>>

Last == hist[Len(hist)]

IsHome(index) == Get(index, "home", FALSE)

\* the post_list child of an index page
PostList(node) == node.children[1]

Synthesising == pc \in {"select", "sort", "pages"}

Rendering == pc \in {"render", "done"}

\* the registry key of the tree a glob result is loaded into
KeyOfFile(yaml_path) ==
    <<"/">> \o PathStr(WithName(yaml_path, HtmlName(PathName(yaml_path))))

----------------------------------------------------------------------------
(* C1: when a specification with N selected members and page size P has    *)
(* finished, exactly ceil(N/P) index pages were synthesized (none for      *)
(* N = 0), and page i's post_list carries the members at positions         *)
(* [i*P, min((i+1)*P, N)) of the member list sorted by date descending.    *)
C1_Pagination ==
    JustFinished =>
        LET N == Len(Last.selected)
            P == page_size(Last.index)
            K == Ceil(N, P)
            prefix == page_root(Last.index)
        IN  /\ Last.pages = K
            /\ Len(Last.page_links) = K
            /\ IsPermutation(Last.post_nodes, Last.selected)
            /\ DateDescending(Last.post_nodes)
            /\ PageKey(prefix, K) \notin DOMAIN nodes
            /\ \A i \in 0..(K - 1) :
                  /\ PageKey(prefix, i) \in DOMAIN nodes
                  /\ Node_attr(PostList(nodes[PageKey(prefix, i)])).post_nodes
                       = SubSeq(Last.post_nodes, i * P + 1, Min((i + 1) * P, N))

\* three members on two pages: a full page and a partial last page
C1_Witness ==
    /\ JustFinished
    /\ Len(Last.selected) = 3
    /\ page_size(Last.index) = 2
    /\ Last.pages = 2
    /\ Last.selected # Last.post_nodes

(* C2: the members selected for every specification are primary nodes      *)
(* only: no index page and no home alias is ever a member of an index.     *)
C2_MembersArePrimary ==
    \A j \in DOMAIN post_nodes :
        /\ Node_path(post_nodes[j]) \in DOMAIN primary
        /\ primary[Node_path(post_nodes[j])] = post_nodes[j]

(* C3: the registry is append-only: once a key is in Site._nodes no later  *)
(* insertion removes it or rebinds it to a different node.                 *)
C3_AppendOnly ==
    [][\A k \in DOMAIN nodes : k \in DOMAIN nodes' /\ nodes'[k] = nodes[k]]_vars

(* C3 as amended: no key is ever removed and the dict order of the         *)
(* existing keys is kept; a binding changes only in index synthesis, at    *)
(* the key that iteration inserts at: /index.html for a home alias or the  *)
(* key of the index page.  Primary load and render never rebind a key.     *)
C3_KeysKeptLastWriteWins ==
    [][/\ DOMAIN nodes \subseteq DOMAIN nodes'
       /\ SubSeq(keys', 1, Len(keys)) = keys
       /\ \A k \in DOMAIN nodes :
             nodes'[k] # nodes[k] =>
                /\ pc = "pages"
                /\ \/ k = HOME_KEY /\ IsHome(indexes[si]) /\ pi = 0
                   \/ k = PageKey(page_root(indexes[si]), pi)]_vars

\* a primary /index.html has been replaced by a home alias
C3_Witness ==
    /\ HOME_KEY \in DOMAIN primary
    /\ HOME_KEY \in DOMAIN nodes
    /\ nodes[HOME_KEY] # primary[HOME_KEY]
    /\ Cardinality(DOMAIN nodes) > Cardinality(DOMAIN primary)

(* C4: the phases are strictly ordered: every primary node is in the       *)
(* registry before index synthesis reads it, index synthesis has finished  *)
(* before the first render starts, and no render step adds, removes or     *)
(* rebinds a registry entry.                                               *)
C4_PhaseOrder ==
    [][/\ (Synthesising' \/ Rendering') =>
             /\ todo' = {}
             /\ \A y \in Glob(fs, root_path) : KeyOfFile(y) \in DOMAIN primary'
             /\ \A k \in DOMAIN primary' : k \in DOMAIN nodes'
       /\ (Rendering' \/ out' # <<>>) =>
             /\ si' > Len(indexes')
             /\ Len(hist') = Len(indexes')
       /\ (Rendering \/ out' # out) => nodes' = nodes /\ keys' = keys]_vars

\* renders have happened on a site with primary and synthesized trees
C4_Witness ==
    /\ pc = "done"
    /\ Cardinality(DOMAIN primary) >= 3
    /\ Cardinality(DOMAIN nodes) > Cardinality(DOMAIN primary)
    /\ DOMAIN out = DOMAIN nodes

\* the keys at which the specifications after hist[j] inserted a tree
LaterKeys(j) ==
    UNION {(IF IsHome(hist[l].index) /\ hist[l].pages >= 1 THEN {HOME_KEY} ELSE {})
           \cup {PageKey(page_root(hist[l].index), i) : i \in 0..(hist[l].pages - 1)} :
           l \in (j + 1)..Len(hist)}

HomeWithMembers(h) == IsHome(h.index) /\ Len(h.selected) >= 1

\* the two trees are in the registry and render to the same text
SameRender(k1, k2) ==
    /\ k1 \in DOMAIN nodes
    /\ k2 \in DOMAIN nodes
    /\ Render(nodes[k1], nodes) = Render(nodes[k2], nodes)
    /\ pc = "done" => out[k1] = out[k2]

(* C5: for a home-marked specification with at least one member, after     *)
(* synthesis the registry holds a tree at /index.html and one at           *)
(* {prefix}indexes/index_0.html, and the two render to identical output.   *)
C5_HomeAlias ==
    Rendering =>
        \A j \in DOMAIN hist :
            HomeWithMembers(hist[j]) =>
                SameRender(HOME_KEY, PageLink(page_root(hist[j].index), 0))

(* C5 as amended: the same, for the tree inserted for page 0 of the        *)
(* specification, as long as no later specification has inserted a tree at *)
(* /index.html or at the key of that page 0 (a later insertion at either   *)
(* key replaces the tree that was there).                                  *)
C5_HomeAliasUnlessReplaced ==
    pc \in {"select", "render", "done"} =>
        \A j \in DOMAIN hist :
            (/\ HomeWithMembers(hist[j])
             /\ LaterKeys(j) \cap {HOME_KEY, PageKey(page_root(hist[j].index), 0)} = {})
            => /\ SameRender(HOME_KEY, PageKey(page_root(hist[j].index), 0))
               /\ Node_attr(PostList(nodes[HOME_KEY]))
                    = Node_attr(PostList(nodes[PageKey(page_root(hist[j].index), 0)]))

\* both trees were rendered, with several pages so that the links are shown
C5_Witness ==
    /\ pc = "done"
    /\ \E j \in DOMAIN hist :
          /\ HomeWithMembers(hist[j])
          /\ hist[j].pages >= 2
          /\ LaterKeys(j) \cap {HOME_KEY, PageKey(page_root(hist[j].index), 0)} = {}
          /\ Len(hist) > j
    /\ HOME_KEY \in DOMAIN out

(* C6: for a specification with K > 1 pages and any page p in 0..K-1, the  *)
(* pagination control has 'previous' disabled iff p = 0 and 'next'         *)
(* disabled iff p = K-1 (otherwise they target pages p-1 and p+1), and     *)
(* exactly entry p is marked active; for K <= 1 no control is rendered.    *)
C6_PaginationControl ==
    JustFinished =>
        LET K      == Last.pages
            prefix == page_root(Last.index)
        IN  \A p \in 0..(K - 1) :
               LET a  == Node_attr(PostList(nodes[PageKey(prefix, p)]))
                   pg == Pagination(a.page_index, a.page_links)
               IN  /\ a.page_index = p
                   /\ a.page_links = Last.page_links
                   /\ Len(a.page_links) = K
                   /\ K <= 1 => ~pg.shown /\ PaginationText(pg) = <<>>
                   /\ K > 1 =>
                        /\ pg.shown
                        /\ (pg.prev_enabled = "disabled") <=> (p = 0)
                        /\ (pg.next_enabled = "disabled") <=> (p = K - 1)
                        /\ pg.prev_enabled \in {"", "disabled"}
                        /\ pg.next_enabled \in {"", "disabled"}
                        /\ pg.prev_link = IF p = 0 THEN <<"#">>
                                          ELSE PageLink(prefix, p - 1)
                        /\ pg.next_link = IF p = K - 1 THEN <<"#">>
                                          ELSE PageLink(prefix, p + 1)
                        /\ Len(pg.items) = K
                        /\ {pg.items[j].label : j \in {x \in 1..K : pg.items[x].active}}
                             = {p}
                        /\ Cardinality({x \in 1..K : pg.items[x].active}) = 1

\* a specification with three pages: a first, a middle and a last page
C6_Witness ==
    /\ JustFinished
    /\ Last.pages = 3
    /\ Pagination(1, Last.page_links).prev_enabled = ""
    /\ Pagination(1, Last.page_links).next_enabled = ""

RECURSIVE BadTree(_)
\* some descriptor of the tree has no type or a type that is not registered
BadTree(d) ==
    \/ ~Has(d, "type")
    \/ d.type \notin DOMAIN REGISTERED_NODE_TYPES
    \/ \E j \in DOMAIN Get(d, "children", <<>>) : BadTree(d.children[j])

(* C8: if a descriptor of a primary document, at any depth, has no type or *)
(* an unregistered type, the build aborts: no Site is produced, the        *)
(* document is not skipped, and nothing is rendered.                       *)
C8_BadDescriptorAborts ==
    \A y \in Glob(fs, root_path) :
        LET file == PathStr(PathJoin(root_path, y))
        IN  (file \in DOMAIN fs /\ BadTree(fs[file])) =>
               /\ ~Synthesising
               /\ ~Rendering
               /\ primary = <<>> /\ out = <<>> /\ disk = <<>>
               /\ KeyOfFile(y) \notin DOMAIN nodes
               /\ y \notin todo => pc = "failed" /\ err \in {"ValueError", "KeyError"}
               /\ todo = {} => pc = "failed"

\* the build stopped at an unregistered type two levels down, others loaded
C8_Witness ==
    /\ pc = "failed"
    /\ err = "KeyError"
    /\ nodes # <<>>
    /\ \E f \in DOMAIN fs : fs[f] = DocContent("deep")
    /\ \A f \in DOMAIN fs : fs[f] # DocContent("unknown")

\* Node.create returned a node of the registered variant whose attr is the
\* descriptor without its children
CreatedAsGiven ==
    /\ ret.ok
    /\ ret.node.cls = REGISTERED_NODE_TYPES[call.data.type]
    /\ DOMAIN Node_attr(ret.node) = DOMAIN call.data \ {"children"}
    /\ \A k \in DOMAIN call.data \ {"children"} : Node_attr(ret.node)[k] = call.data[k]
    /\ Len(ret.node.children) = Len(Get(call.data, "children", <<>>))

(* C9: for every registered type tag and every set of fields,              *)
(* Node.create(path, {type, ...fields, children}) returns a node of the    *)
(* variant registered under the tag whose attr equals the given fields     *)
(* with children excluded.                                                 *)
C9_CreateReturnsNode == pc = "created" => CreatedAsGiven

(* C9 as amended: the same for every registered tag except that a "base"   *)
(* descriptor must carry a root_path; without it BaseNode.__init__ raises  *)
(* TypeError and no node is returned.                                      *)
C9_CreateUnlessBaseWithoutRoot ==
    pc = "created" =>
        IF call.data.type = "base" /\ ~Has(call.data, "root_path")
        THEN ~ret.ok /\ ret.err = "TypeError"
        ELSE CreatedAsGiven

\* a base descriptor with root_path and two children, the first nested
C9_Witness ==
    /\ pc = "created"
    /\ ret.ok
    /\ call.data.type = "base"
    /\ Has(call.data, "title")
    /\ Len(ret.node.children) = 2

(* C10: for every specification that selected at least one member, once    *)
(* its synthesis has finished the directory content root / prefix /        *)
(* indexes exists, and no index page's write fails for a missing           *)
(* directory.                                                              *)
C10_IndexDirExists ==
    /\ hist # <<>> => err # "FileNotFoundError"
    /\ \A j \in DOMAIN hist :
          Len(hist[j].selected) >= 1 =>
             LET prefix == page_root(hist[j].index)
             IN  /\ PathStr(PathJoin(root_path,
                                     Path(<<".">> \o prefix \o <<"/", "indexes">>)))
                       \in dirs
                 /\ \A i \in 0..(hist[j].pages - 1) :
                       /\ PageKey(prefix, i) \in DOMAIN nodes
                       /\ ~WriteFails(nodes[PageKey(prefix, i)], dirs)

\* the index pages of a specification were written below the content root
C10_Witness ==
    /\ pc = "done"
    /\ \E j \in DOMAIN hist :
          /\ Len(hist[j].selected) >= 1
          /\ PathStr(nodes[PageKey(page_root(hist[j].index), 0)].html_path)
                \in DOMAIN disk
          /\ <<"a", "/", "indexes">> \in dirs

(* C11: for every index specification, with or without a trailing "/" in   *)
(* its prefix, and every page index i, the registry key under which page   *)
(* i's tree was inserted equals the i-th entry of the page-link list       *)
(* computed beforehand, so every link of the list names a registry key     *)
(* and the tree registered there is page i of that list.                   *)
C11_LinksAreKeys ==
    JustFinished =>
        LET prefix == page_root(Last.index)
        IN  \A i \in 0..(Last.pages - 1) :
               LET link == Last.page_links[i + 1]
               IN  /\ PageKey(prefix, i) \in DOMAIN nodes
                   /\ link = PageKey(prefix, i)
                   /\ link \in DOMAIN nodes
                   /\ Node_attr(PostList(nodes[link])).page_index = i

RECURSIVE WithoutChildren(_)

\* every dictionary of a descriptor tree with its children key removed
WithoutChildren(d) ==
    [self |-> [k \in DOMAIN d \ {"children"} |-> d[k]],
     kids |-> IF "children" \in DOMAIN d
              THEN [j \in DOMAIN d.children |-> WithoutChildren(d.children[j])]
              ELSE <<>>]

RECURSIVE AnyNestedChildren(_)

\* some child dictionary of d lists children of its own
AnyNestedChildren(d) ==
    /\ "children" \in DOMAIN d
    /\ \E j \in DOMAIN d.children :
          \/ "children" \in DOMAIN d.children[j]
          \/ AnyNestedChildren(d.children[j])

(* C12: after Node.create(path, d) returns, the dictionary d the caller    *)
(* passed and every nested child dictionary equal their values before the  *)
(* call, the children key included.                                        *)
C12_DescriptorUnchanged ==
    (pc = "created" /\ ret.ok) => held = Untouched(call.data)

(* C12, amended: after Node.create(path, d) returns, d and every nested    *)
(* child dictionary have lost their children key and kept every other key  *)
(* with its value; a dictionary that had no children key is unchanged.     *)
(* Whether or not the call returns, no key other than children changes.    *)
C12_OnlyChildrenPopped ==
    pc = "created" =>
        /\ ret.ok => held = WithoutChildren(call.data)
        /\ (ret.ok /\ "children" \notin DOMAIN call.data) => held.self = call.data
        /\ [k \in DOMAIN held.self \ {"children"} |-> held.self[k]]
              = [k \in DOMAIN call.data \ {"children"} |-> call.data[k]]

\* a returned tree whose descriptor listed children that list children
C12_Witness ==
    /\ pc = "created"
    /\ ret.ok
    /\ AnyNestedChildren(call.data)
    /\ held.self # call.data
    /\ held.kids[1].self # call.data.children[1]

====
